---- MODULE Spec2Model ----
(***************************************************************************)
(* A model of src/python/pants/bsp/util_rules/compile.py: the BSP         *)
(* buildTarget/compile rules bsp_compile_request (the batch) and          *)
(* compile_bsp_target (one build target).                                 *)
(*                                                                         *)
(* Each rule is a coroutine; it is cut into actions at its awaits and at  *)
(* the effects the properties observe (notify_client, the backend Gets,   *)
(* write_digest).  The engine that runs the Gets, the target resolvers,   *)
(* the digest store and the backend rules live outside compile.py; they   *)
(* are modelled by their contracts.  event_time and arguments play no     *)
(* part in any checked property and are left out of the records.          *)
(***************************************************************************)
EXTENDS Integers, Sequences, FiniteSets, TLC

\* Longest request.targets list drawn.
MaxTargets == 2
\* A further request is accepted while fewer than MaxDraws uuid4() values
\* have been drawn.
MaxDraws == 2

(***************************************************************************)
(* The build graph the requests are drawn against.                        *)
(***************************************************************************)
Identifiers == {"//:a", "//:b", "//:c", "//:d", "//:missing"}
OriginIds == {"None", "origin-1"}

\* union_membership.get(BSPCompileRequest): the registered request types,
\* in registration order.
compile_request_types == <<"javac", "scalac">>

Kinds == {compile_request_types[n] : n \in 1..Len(compile_request_types)}

\* A concrete target: its address and the request types applicable to it.
Tgt(addr, ks) == [address |-> addr, applicable |-> ks]

\* Get(BSPBuildTargetInternal, BuildTargetIdentifier): does the identifier
\* name a BSP build target.
Resolvable(id) == id # "//:missing"

\* Get(Targets, BSPBuildTargetInternal): the concrete targets of a BSP
\* build target (one target may be listed more than once).
ResolveTargets(id) ==
    CASE id = "//:a" -> << Tgt("a1", {"javac", "scalac"}), Tgt("a2", {"scalac"}),
                           Tgt("a1", {"javac", "scalac"}) >>
      [] id = "//:b" -> << Tgt("b1", {"scalac"}) >>
      [] id = "//:c" -> << Tgt("c1", {}) >>
      [] OTHER       -> << >>

\* field_set_type.is_applicable(target) and field_set_type.create(target)
is_applicable(k, target) == k \in target.applicable
create(k, target) == [kind |-> k, address |-> target.address]

(***************************************************************************)
(* Digests: a tree is a set of <<path, content>> entries.                 *)
(***************************************************************************)
EMPTY_DIGEST == {}

Collides(a, b) == \E x \in a, y \in b : x[1] = y[1] /\ x[2] # y[2]

\* MergeDigests over a list: the union of the trees, failing when two of
\* them hold different content at one path.
RECURSIVE MergeDigests(_)
MergeDigests(ds) ==
    IF ds = << >> THEN [ok |-> TRUE, digest |-> EMPTY_DIGEST]
    ELSE LET rest == MergeDigests(Tail(ds))
         IN  IF ~rest.ok \/ Collides(Head(ds), rest.digest)
             THEN [ok |-> FALSE, digest |-> EMPTY_DIGEST]
             ELSE [ok |-> TRUE, digest |-> Head(ds) \cup rest.digest]

\* What one backend rule may answer: a StatusCode and an output digest.
BackendResults ==
    [status : {"OK"}, output_digest : { {}, {<<"p", 1>>}, {<<"p", 2>>}, {<<"q", 1>>} }]
        \cup [status : {"ERROR"}, output_digest : { {}, {<<"p", 1>>} }]
        \cup [status : {"CANCELLED"}, output_digest : { {} }]

(***************************************************************************)
(* Pure parts of compile_bsp_target.                                      *)
(***************************************************************************)
\* Lines 59-65: group the field sets of the targets by request type.  The
\* dict keeps its keys in first-insertion order; each value is a set.
RECURSIVE ClassifyKinds(_, _, _)
ClassifyKinds(target, ks, acc) ==
    IF ks = << >> THEN acc
    ELSE LET k == Head(ks)
         IN  IF is_applicable(k, target)
             THEN ClassifyKinds(target, Tail(ks),
                     [order |-> IF \E n \in 1..Len(acc.order) : acc.order[n] = k
                                THEN acc.order ELSE Append(acc.order, k),
                      sets  |-> [acc.sets EXCEPT ![k] = @ \cup {create(k, target)}]])
             ELSE ClassifyKinds(target, Tail(ks), acc)

RECURSIVE ClassifyTargets(_, _)
ClassifyTargets(targets, acc) ==
    IF targets = << >> THEN acc
    ELSE ClassifyTargets(Tail(targets),
                         ClassifyKinds(Head(targets), compile_request_types, acc))

Classify(targets) ==
    ClassifyTargets(targets, [order |-> << >>, sets |-> [k \in Kinds |-> {}]])

\* Faulty variant: only the last result is looked at.
AnyNotOKMutant(rs) == rs # << >> /\ rs[Len(rs)].status # "OK"

\* Faulty variant: only ERROR counts, CANCELLED passes for OK.
AnyErrorMutant(rs) == \E n \in 1..Len(rs) : rs[n].status = "ERROR"

\* any(r.status != StatusCode.OK for r in compile_results), lines 87 and 139
RECURSIVE AnyNotOK(_)
AnyNotOK(rs) ==
    IF rs = << >> THEN FALSE
    ELSE Head(rs).status # "OK" \/ AnyNotOK(Tail(rs))

\* Faulty variant: no result at all counts as a failure.
WorstOfEmptyMutant(rs) == IF rs = << >> \/ AnyNotOK(rs) THEN "ERROR" ELSE "OK"

\* Lines 86-88 and 138-140
WorstOf(rs) == IF AnyNotOK(rs) THEN "ERROR" ELSE "OK"

\* Faulty variant: a path an earlier tree already holds is dropped from
\* the later trees, so that the first tree wins.
DigestsFirstWinsMutant(rs) ==
    [n \in 1..Len(rs) |->
        { x \in rs[n].output_digest :
            \A m \in 1..(n - 1) : \A y \in rs[m].output_digest : y[1] # x[1] }]

\* [r.output_digest for r in compile_results]
Digests(rs) == [n \in 1..Len(rs) |-> rs[n].output_digest]

(***************************************************************************)
(* State.                                                                  *)
(***************************************************************************)
VARIABLES
    request,        \* the CompileParams of the running call
    pc,             \* position of bsp_compile_request
    bsp_targets,    \* per identifier: the state of its resolution
    dpc,            \* per identifier: position of compile_bsp_target
    field_sets_by_request_type, \* per identifier: the classification
    task_id,        \* per identifier: the TaskId minted (0: none yet)
    handler,        \* per identifier and request type: the backend Get
    invoked,        \* per identifier: the backend requests issued, in order
    dstatus,        \* per identifier: status of compile_bsp_target
    dresult,        \* per identifier: the BSPCompileResult returned
    notifications,  \* what notify_client was given during this call, in order
    output_digest,  \* bsp_compile_request's merged digest
    writes,         \* the workspace.write_digest calls of this call
    result,         \* the CompileResult returned
    uuid,           \* number of uuid4() values drawn so far
    minted,         \* every TaskId minted so far, by any call, in order
    push_failed     \* the sink failed to deliver a notification of this call

vars == << request, pc, bsp_targets, dpc, field_sets_by_request_type, task_id,
           handler, invoked, dstatus, dresult, notifications, output_digest,
           writes, result, uuid, minted, push_failed >>

Idx == 1..Len(request.targets)

\* Lists of distinct identifiers: a client names each build target once.
TargetLists ==
    { ts \in UNION { [1..n -> Identifiers] : n \in 0..MaxTargets } :
        \A i, j \in DOMAIN ts : i # j => ts[i] # ts[j] }

Requests == [targets : TargetLists, origin_id : OriginIds]

NoResult == [status |-> "-", output_digest |-> EMPTY_DIGEST]
IdleHandler == [state |-> "idle", status |-> "-", output_digest |-> EMPTY_DIGEST]
NoCompileResult == [returned |-> FALSE, origin_id |-> "None", status_code |-> "-"]

\* The state in which bsp_compile_request starts on a request.
Begin(req) ==
    /\ request' = req
    /\ pc' = "resolving"
    /\ bsp_targets' = [i \in 1..Len(req.targets) |->
                          [state |-> "pending", bsp_target_id |-> req.targets[i]]]
    /\ dpc' = [i \in 1..Len(req.targets) |-> "none"]
    /\ field_sets_by_request_type' = [i \in 1..Len(req.targets) |-> Classify(<< >>)]
    /\ task_id' = [i \in 1..Len(req.targets) |-> 0]
    /\ handler' = [i \in 1..Len(req.targets) |-> [k \in Kinds |-> IdleHandler]]
    /\ invoked' = [i \in 1..Len(req.targets) |-> << >>]
    /\ dstatus' = [i \in 1..Len(req.targets) |-> "-"]
    /\ dresult' = [i \in 1..Len(req.targets) |-> NoResult]
    /\ notifications' = << >>
    /\ output_digest' = EMPTY_DIGEST
    /\ writes' = << >>
    /\ result' = NoCompileResult
    /\ push_failed' = FALSE

Init ==
    \E req \in Requests :
        /\ request = req
        /\ pc = "resolving"
        /\ bsp_targets = [i \in 1..Len(req.targets) |->
                             [state |-> "pending", bsp_target_id |-> req.targets[i]]]
        /\ dpc = [i \in 1..Len(req.targets) |-> "none"]
        /\ field_sets_by_request_type = [i \in 1..Len(req.targets) |-> Classify(<< >>)]
        /\ task_id = [i \in 1..Len(req.targets) |-> 0]
        /\ handler = [i \in 1..Len(req.targets) |-> [k \in Kinds |-> IdleHandler]]
        /\ invoked = [i \in 1..Len(req.targets) |-> << >>]
        /\ dstatus = [i \in 1..Len(req.targets) |-> "-"]
        /\ dresult = [i \in 1..Len(req.targets) |-> NoResult]
        /\ notifications = << >>
        /\ output_digest = EMPTY_DIGEST
        /\ writes = << >>
        /\ result = NoCompileResult
        /\ uuid = 0
        /\ minted = << >>
        /\ push_failed = FALSE

(***************************************************************************)
(* bsp_compile_request, lines 117-120: resolve every identifier.          *)
(***************************************************************************)
ResolveIdentifier(i) ==
    /\ pc = "resolving"
    /\ bsp_targets[i].state = "pending"
    /\ bsp_targets' = [bsp_targets EXCEPT ![i].state =
                          IF Resolvable(bsp_targets[i].bsp_target_id)
                          THEN "resolved" ELSE "failed"]
    /\ UNCHANGED << push_failed, request, pc, dpc, field_sets_by_request_type, task_id, handler,
                    invoked, dstatus, dresult, notifications, output_digest,
                    writes, result, uuid, minted >>

\* The MultiGet of line 117 raises: the rule ends without a CompileResult.
ResolutionFailed ==
    /\ pc = "resolving"
    /\ \E i \in Idx : bsp_targets[i].state = "failed"
    /\ pc' = "failed"
    /\ UNCHANGED << push_failed, request, bsp_targets, dpc, field_sets_by_request_type, task_id,
                    handler, invoked, dstatus, dresult, notifications,
                    output_digest, writes, result, uuid, minted >>

\* Faulty variant: the rule goes on although a resolution failed.
AllResolvedMutant == \A i \in Idx : bsp_targets[i].state # "pending"

\* Lines 117-122: the rule goes on to line 122 once the MultiGet of line 117
\* has every BSPBuildTargetInternal.
AllResolved == \A i \in Idx : bsp_targets[i].state = "resolved"

\* Lines 122-132: one compile_bsp_target per resolved BSP target.
StartDispatch ==
    /\ pc = "resolving"
    /\ AllResolved
    /\ pc' = "dispatching"
    /\ dpc' = [i \in Idx |-> "created"]
    /\ UNCHANGED << push_failed, request, bsp_targets, field_sets_by_request_type, task_id,
                    handler, invoked, dstatus, dresult, notifications,
                    output_digest, writes, result, uuid, minted >>

(***************************************************************************)
(* compile_bsp_target for the i-th identifier.                            *)
(***************************************************************************)
\* Faulty variant: every run uses the same TaskId.
TaskIdMutant(n) == 1

\* Line 67: uuid.uuid4().hex, a value no earlier draw has returned; n draws
\* were made before.
TaskId(n) == n + 1

\* Lines 69-75
TaskStartParams(tid, target) ==
    [kind |-> "TaskStart", task_id |-> tid, target |-> target]

\* Faulty variant: TaskFinish carries the status of the batch so far.
TaskFinishParamsBatchStatusMutant(tid, st, target, origin) ==
    [kind |-> "TaskFinish", task_id |-> tid,
     status |-> IF \E i \in DOMAIN handler : \E k \in DOMAIN handler[i] :
                      handler[i][k].status \notin {"OK", "-"}
                THEN "ERROR" ELSE st,
     target |-> target, origin_id |-> origin, errors |-> 0, warnings |-> 0]

\* Faulty variant: the report of TaskFinish does not carry the origin_id.
TaskFinishParamsNoOriginMutant(tid, st, target, origin) ==
    [kind |-> "TaskFinish", task_id |-> tid, status |-> st, target |-> target,
     origin_id |-> "None", errors |-> 0, warnings |-> 0]

\* Faulty variant: the trees are merged before TaskFinish is pushed and a
\* failed merge is reported as ERROR.
TaskFinishParamsMergedFirstMutant(tid, st, target, origin) ==
    [kind |-> "TaskFinish", task_id |-> tid,
     status |-> IF \E i \in DOMAIN handler :
                      /\ bsp_targets[i].bsp_target_id = target
                      /\ \E k1, k2 \in Kinds :
                            Collides(handler[i][k1].output_digest,
                                     handler[i][k2].output_digest)
                THEN "ERROR" ELSE st,
     target |-> target, origin_id |-> origin, errors |-> 0, warnings |-> 0]

\* Faulty variant: TaskFinish carries another TaskId than TaskStart.
TaskFinishParamsMutant(tid, st, target, origin) ==
    [kind |-> "TaskFinish", task_id |-> tid + 1, status |-> st, target |-> target,
     origin_id |-> origin, errors |-> 0, warnings |-> 0]

\* Lines 90-102
TaskFinishParams(tid, st, target, origin) ==
    [kind |-> "TaskFinish", task_id |-> tid, status |-> st, target |-> target,
     origin_id |-> origin, errors |-> 0, warnings |-> 0]

\* Faulty variant: a notification that cannot be delivered ends the rule.
AfterNotifyMutant(next, delivered) == IF delivered THEN next ELSE "failed"

\* Lines 69-75 and 90-102: notify_client is called as a statement, what it
\* returns is not looked at, and the rule goes on to its next position
\* whether or not the sink delivers the notification.
AfterNotify(next, delivered) == next

\* Lines 55-75: the targets arrive, are classified, the TaskId is minted and
\* TaskStart is pushed.
Start(i) ==
    /\ dpc[i] = "created"
    /\ field_sets_by_request_type' =
          [field_sets_by_request_type EXCEPT
              ![i] = Classify(ResolveTargets(bsp_targets[i].bsp_target_id))]
    /\ task_id' = [task_id EXCEPT ![i] = TaskId(uuid)]
    /\ uuid' = uuid + 1
    /\ minted' = Append(minted, TaskId(uuid))
    /\ notifications' = Append(notifications,
                               TaskStartParams(TaskId(uuid), bsp_targets[i].bsp_target_id))
    /\ \E delivered \in BOOLEAN :
          /\ push_failed' = (push_failed \/ ~delivered)
          /\ dpc' = [dpc EXCEPT ![i] = AfterNotify("started", delivered)]
    /\ UNCHANGED << request, pc, bsp_targets, handler, invoked, dstatus, dresult,
                    output_digest, writes, result >>

\* Faulty variant: one request per target and applicable request type.
BackendRequestsMutant(i, fs) ==
    LET targets == ResolveTargets(bsp_targets[i].bsp_target_id)
        pairs == { <<n, k>> \in (1..Len(targets)) \X Kinds : is_applicable(k, targets[n]) }
        RECURSIVE Flat(_)
        Flat(ps) == IF ps = {} THEN << >>
                    ELSE LET p == CHOOSE p \in ps : TRUE
                         IN  << [kind |-> p[2],
                                 bsp_target |-> bsp_targets[i].bsp_target_id,
                                 field_sets |-> {create(p[2], targets[p[1]])}] >>
                             \o Flat(ps \ {p})
    IN  Flat(pairs)

\* Faulty variant: a request type already requested by another run of the
\* batch is not requested again.
BackendRequestsSharedMutant(i, fs) ==
    LET all == [n \in 1..Len(fs.order) |->
                   [kind |-> fs.order[n],
                    bsp_target |-> bsp_targets[i].bsp_target_id,
                    field_sets |-> fs.sets[fs.order[n]]]]
        Fresh(r) == \A j \in Idx \ {i} :
                       \A n \in 1..Len(invoked[j]) : invoked[j][n].kind # r.kind
    IN  SelectSeq(all, Fresh)

\* Lines 77-84: the requests of the MultiGet, one per item of the dict.
BackendRequests(i, fs) ==
    [n \in 1..Len(fs.order) |->
        [kind |-> fs.order[n],
         bsp_target |-> bsp_targets[i].bsp_target_id,
         field_sets |-> fs.sets[fs.order[n]]]]

\* Lines 77-84: the backend Gets are issued.
Invoke(i) ==
    /\ dpc[i] = "started"
    /\ LET reqs == BackendRequests(i, field_sets_by_request_type[i])
       IN  /\ invoked' = [invoked EXCEPT ![i] = reqs]
           /\ handler' = [handler EXCEPT ![i] =
                  [k \in Kinds |->
                      IF \E n \in 1..Len(reqs) : reqs[n].kind = k
                      THEN [IdleHandler EXCEPT !.state = "running"]
                      ELSE IdleHandler]]
    /\ dpc' = [dpc EXCEPT ![i] = "awaiting"]
    /\ UNCHANGED << push_failed, request, pc, bsp_targets, field_sets_by_request_type, task_id,
                    dstatus, dresult, notifications, output_digest, writes,
                    result, uuid, minted >>

\* One backend rule answers its request.
BackendComplete(i, k) ==
    /\ handler[i][k].state = "running"
    /\ \E r \in BackendResults :
          handler' = [handler EXCEPT ![i][k] =
                         [state |-> "done", status |-> r.status,
                          output_digest |-> r.output_digest]]
    /\ UNCHANGED << push_failed, request, pc, bsp_targets, dpc, field_sets_by_request_type,
                    task_id, invoked, dstatus, dresult, notifications,
                    output_digest, writes, result, uuid, minted >>

\* compile_results of compile_bsp_target, in the order of the MultiGet.
CompileResultsOf(i) ==
    [n \in 1..Len(invoked[i]) |->
        [status |-> handler[i][invoked[i][n].kind].status,
         output_digest |-> handler[i][invoked[i][n].kind].output_digest]]

\* Faulty variant: the join is fail-fast, a non-OK result ends it at once.
BackendsJoinedFailFastMutant(i) ==
    \/ \A k \in Kinds : handler[i][k].state # "running"
    \/ \E k \in Kinds : handler[i][k].state = "done" /\ handler[i][k].status # "OK"

\* Faulty variant: the join does not wait for every result.
BackendsJoinedMutant(i) ==
    \E k \in Kinds : handler[i][k].state # "running"

\* The MultiGet of lines 77-84 has every result.
BackendsJoined(i) ==
    \A k \in Kinds : handler[i][k].state # "running"

\* Lines 86-102: the status is aggregated and TaskFinish is pushed.
Finish(i) ==
    /\ dpc[i] = "awaiting"
    /\ BackendsJoined(i)
    /\ dstatus' = [dstatus EXCEPT ![i] = WorstOf(CompileResultsOf(i))]
    /\ notifications' =
          Append(notifications,
                 TaskFinishParams(task_id[i], WorstOf(CompileResultsOf(i)),
                                  bsp_targets[i].bsp_target_id, request.origin_id))
    /\ \E delivered \in BOOLEAN :
          /\ push_failed' = (push_failed \/ ~delivered)
          /\ dpc' = [dpc EXCEPT ![i] = AfterNotify("finished", delivered)]
    /\ UNCHANGED << request, pc, bsp_targets, field_sets_by_request_type, task_id,
                    handler, invoked, dresult, output_digest, writes, result,
                    uuid, minted >>

\* Lines 104-109: the merge succeeds and the rule returns.
Return(i) ==
    /\ dpc[i] = "finished"
    /\ LET m == MergeDigests(Digests(CompileResultsOf(i)))
       IN  /\ m.ok
           /\ dresult' = [dresult EXCEPT ![i] =
                             [status |-> dstatus[i], output_digest |-> m.digest]]
    /\ dpc' = [dpc EXCEPT ![i] = "returned"]
    /\ UNCHANGED << push_failed, request, pc, bsp_targets, field_sets_by_request_type, task_id,
                    handler, invoked, dstatus, notifications, output_digest,
                    writes, result, uuid, minted >>

\* Line 104: the merge raises and the rule ends without a result.
MergeFailed(i) ==
    /\ dpc[i] = "finished"
    /\ ~MergeDigests(Digests(CompileResultsOf(i))).ok
    /\ dpc' = [dpc EXCEPT ![i] = "failed"]
    /\ UNCHANGED << push_failed, request, pc, bsp_targets, field_sets_by_request_type, task_id,
                    handler, invoked, dstatus, dresult, notifications,
                    output_digest, writes, result, uuid, minted >>

(***************************************************************************)
(* bsp_compile_request, lines 122-145.                                    *)
(***************************************************************************)
\* compile_results of bsp_compile_request, in the order of request.targets
BatchResults == [i \in Idx |-> dresult[i]]

\* The MultiGet of line 122 raises because one compile_bsp_target raised.
DispatchFailed ==
    /\ pc = "dispatching"
    /\ \E i \in Idx : dpc[i] = "failed"
    /\ pc' = "failed"
    /\ UNCHANGED << push_failed, request, bsp_targets, dpc, field_sets_by_request_type, task_id,
                    handler, invoked, dstatus, dresult, notifications,
                    output_digest, writes, result, uuid, minted >>

\* Faulty variant: the join of the batch does not wait for every run.
AllReturnedMutant == \E i \in Idx : dpc[i] = "returned"

\* Faulty variant: the join of the batch gives up on runs that still wait
\* for a backend.
AllReturnedOrWaitingMutant ==
    /\ \A i \in Idx : dpc[i] \in {"returned", "awaiting"}
    /\ \E i \in Idx : dpc[i] = "returned"

\* The MultiGet of lines 122-132 has the result of every compile_bsp_target.
AllReturned == \A i \in Idx : dpc[i] = "returned"

\* Lines 122-134: every compile_bsp_target has returned and the merge of
\* line 134 succeeds.
Merge ==
    /\ pc = "dispatching"
    /\ AllReturned
    /\ LET m == MergeDigests(Digests(BatchResults))
       IN  /\ m.ok
           /\ output_digest' = m.digest
    /\ pc' = "merged"
    /\ UNCHANGED << push_failed, request, bsp_targets, dpc, field_sets_by_request_type, task_id,
                    handler, invoked, dstatus, dresult, notifications, writes,
                    result, uuid, minted >>

\* Line 134: the merge raises.
BatchMergeFailed ==
    /\ pc = "dispatching"
    /\ AllReturned
    /\ ~MergeDigests(Digests(BatchResults)).ok
    /\ pc' = "failed"
    /\ UNCHANGED << push_failed, request, bsp_targets, dpc, field_sets_by_request_type, task_id,
                    handler, invoked, dstatus, dresult, notifications,
                    output_digest, writes, result, uuid, minted >>

\* Faulty variant: the digest is written only when the compile succeeded.
ShouldWriteOnSuccessMutant(digest) ==
    digest # EMPTY_DIGEST /\ ~AnyNotOK(BatchResults)

\* Faulty variant: the digest is written whatever it holds.
ShouldWriteMutant(digest) == TRUE

\* Line 135
ShouldWrite(digest) == digest # EMPTY_DIGEST

\* Lines 135-136
Write ==
    /\ pc = "merged"
    /\ writes' = IF ShouldWrite(output_digest)
                 THEN Append(writes, [digest |-> output_digest,
                                      path_prefix |-> ".pants.d/bsp"])
                 ELSE writes
    /\ pc' = "aggregating"
    /\ UNCHANGED << push_failed, request, bsp_targets, dpc, field_sets_by_request_type, task_id,
                    handler, invoked, dstatus, dresult, notifications,
                    output_digest, result, uuid, minted >>

\* Lines 138-145
ReturnResult ==
    /\ pc = "aggregating"
    /\ result' = [returned |-> TRUE, origin_id |-> request.origin_id,
                  status_code |-> WorstOf(BatchResults)]
    /\ pc' = "returned"
    /\ UNCHANGED << push_failed, request, bsp_targets, dpc, field_sets_by_request_type, task_id,
                    handler, invoked, dstatus, dresult, notifications,
                    output_digest, writes, uuid, minted >>

\* The rule is re-entrant: the next request starts from a clean call state;
\* only the uuid4() draws already made stay made.
Quiescent ==
    /\ pc \in {"returned", "failed"}
    /\ \A i \in Idx : dpc[i] \in {"none", "returned", "failed"}

NextRequest ==
    /\ Quiescent
    /\ uuid < MaxDraws
    /\ UNCHANGED << uuid, minted >>
    /\ \E req \in Requests : Begin(req)

Next ==
    \/ \E i \in Idx : ResolveIdentifier(i)
    \/ ResolutionFailed
    \/ StartDispatch
    \/ \E i \in Idx : Start(i)
    \/ \E i \in Idx : Invoke(i)
    \/ \E i \in Idx, k \in Kinds : BackendComplete(i, k)
    \/ \E i \in Idx : Finish(i)
    \/ \E i \in Idx : Return(i)
    \/ \E i \in Idx : MergeFailed(i)
    \/ DispatchFailed
    \/ Merge
    \/ BatchMergeFailed
    \/ Write
    \/ ReturnResult
    \/ NextRequest

Spec == Init /\ [][Next]_vars

\* A call that starts after earlier calls have drawn MaxDraws - 1 uuid4()
\* values: further requests follow only calls that minted no TaskId.
FairInit ==
    \E req \in Requests :
        /\ request = req
        /\ pc = "resolving"
        /\ bsp_targets = [i \in 1..Len(req.targets) |->
                             [state |-> "pending", bsp_target_id |-> req.targets[i]]]
        /\ dpc = [i \in 1..Len(req.targets) |-> "none"]
        /\ field_sets_by_request_type = [i \in 1..Len(req.targets) |-> Classify(<< >>)]
        /\ task_id = [i \in 1..Len(req.targets) |-> 0]
        /\ handler = [i \in 1..Len(req.targets) |-> [k \in Kinds |-> IdleHandler]]
        /\ invoked = [i \in 1..Len(req.targets) |-> << >>]
        /\ dstatus = [i \in 1..Len(req.targets) |-> "-"]
        /\ dresult = [i \in 1..Len(req.targets) |-> NoResult]
        /\ notifications = << >>
        /\ output_digest = EMPTY_DIGEST
        /\ writes = << >>
        /\ result = NoCompileResult
        /\ uuid = MaxDraws - 1
        /\ minted = [n \in 1..(MaxDraws - 1) |-> TaskId(n - 1)]
        /\ push_failed = FALSE

\* The engine keeps running whatever can run, and every resolver, backend
\* rule and merge answers.
FairSpec == FairInit /\ [][Next]_vars /\ WF_vars(Next)

(***************************************************************************)
(* Observations used by the properties.                                   *)
(***************************************************************************)
Notes == 1..Len(notifications)

\* Positions in the sink of the events of one kind carrying one TaskId
EventsOf(kind, tid) ==
    { n \in Notes : notifications[n].kind = kind /\ notifications[n].task_id = tid }

\* Positions in the sink of the events of one kind naming one target
EventsFor(kind, target) ==
    { n \in Notes : notifications[n].kind = kind /\ notifications[n].target = target }

IdOf(i) == bsp_targets[i].bsp_target_id

HasStart(i) == EventsFor("TaskStart", IdOf(i)) # {}
HasFinish(i) == EventsFor("TaskFinish", IdOf(i)) # {}

\* The request types compile_bsp_target has issued a Get for
InvokedKinds(i) == { invoked[i][n].kind : n \in 1..Len(invoked[i]) }

\* How many Gets compile_bsp_target i issued for request type k
Invocations(i, k) ==
    Cardinality({ n \in 1..Len(invoked[i]) : invoked[i][n].kind = k })

\* The targets of the i-th build target that request type k applies to
ApplicableTargets(i, k) ==
    LET targets == ResolveTargets(IdOf(i))
    IN  { targets[n] : n \in { m \in 1..Len(targets) : is_applicable(k, targets[m]) } }

\* Every TaskId the model ever mints lies in this range.
TaskIds == 1..(MaxDraws + MaxTargets)

(***************************************************************************)
(* C1. A batch that ran to completion has pushed exactly one TaskStart and *)
(* one TaskFinish per target of the request, both carrying the TaskId of   *)
(* that target's compile_bsp_target, and no TaskId was minted twice, by    *)
(* this call or an earlier one.                                            *)
(***************************************************************************)
C1_OnePairPerTarget ==
    /\ \A m, n \in 1..Len(minted) : m # n => minted[m] # minted[n]
    /\ \A i \in Idx : task_id[i] # 0 =>
          /\ \E n \in 1..Len(minted) : minted[n] = task_id[i]
          /\ \A j \in Idx : j # i => task_id[j] # task_id[i]
    /\ pc = "returned" =>
          /\ Len(notifications) = 2 * Len(request.targets)
          /\ \A i \in Idx :
                /\ Cardinality(EventsFor("TaskStart", IdOf(i))) = 1
                /\ Cardinality(EventsFor("TaskFinish", IdOf(i))) = 1
                /\ EventsFor("TaskStart", IdOf(i)) = EventsOf("TaskStart", task_id[i])
                /\ EventsFor("TaskFinish", IdOf(i)) = EventsOf("TaskFinish", task_id[i])

\* A second call, of two targets, has returned after an earlier call minted.
C1_Witness ==
    /\ pc = "returned"
    /\ Len(request.targets) = 2
    /\ Len(minted) = 3
    /\ Len(notifications) = 4

(***************************************************************************)
(* C2. For each target, in every interleaving: TaskStart is in the sink    *)
(* before any of its backend Gets is issued, TaskFinish is pushed only     *)
(* when every backend Get it issued has its result, and TaskFinish is in   *)
(* the sink when compile_bsp_target has returned.                          *)
(***************************************************************************)
C2_Ordering ==
    \A i \in Idx :
        /\ (invoked[i] # << >> \/ \E k \in Kinds : handler[i][k].state # "idle")
              => HasStart(i)
        /\ HasFinish(i) =>
              /\ HasStart(i)
              /\ dpc[i] \notin {"none", "created", "started"}
              /\ \A k \in InvokedKinds(i) : handler[i][k].state = "done"
              /\ \A k \in Kinds : handler[i][k].state # "running"
        /\ dpc[i] = "returned" => HasFinish(i)

\* One target has returned, after two backends, while another still waits.
C2_Witness ==
    \E i, j \in Idx :
        /\ dpc[i] = "returned" /\ Cardinality(InvokedKinds(i)) = 2
        /\ dpc[j] = "awaiting" /\ \E k \in Kinds : handler[j][k].state = "running"

(***************************************************************************)
(* Pairing of the events in the sink.                                      *)
(***************************************************************************)
\* No TaskId has two TaskStarts or two TaskFinishes, or a TaskFinish without
\* an earlier TaskStart.
C3_PairSafety ==
    \A tid \in TaskIds :
        /\ Cardinality(EventsOf("TaskStart", tid)) <= 1
        /\ Cardinality(EventsOf("TaskFinish", tid)) <= 1
        /\ \A f \in EventsOf("TaskFinish", tid) :
              \E st \in EventsOf("TaskStart", tid) : st < f
    /\ \A n \in Notes : notifications[n].task_id \in TaskIds

\* Every TaskStart in the sink has its TaskFinish in the sink.
AllPaired ==
    \A n \in Notes :
        notifications[n].kind = "TaskStart" =>
            EventsOf("TaskFinish", notifications[n].task_id) # {}

\* The sink changes by one event pushed at its end; the observation of a
\* call ends only when every TaskStart has its TaskFinish.
SinkGrows ==
    \/ \E e \in {notifications'[n] : n \in 1..Len(notifications')} :
          notifications' = Append(notifications, e)
    \/ AllPaired /\ notifications' = << >>

\* C3: every TaskStart pushed is followed by exactly one TaskFinish with its
\* TaskId: never a second one, never one before its TaskStart, and never
\* none, as long as the engine keeps running and the backends answer.
C3_StartThenFinish ==
    /\ []C3_PairSafety
    /\ [][notifications' # notifications => SinkGrows]_vars
    /\ (~AllPaired) ~> AllPaired

\* A TaskFinish is in the sink, of a target whose merge then failed.
C3_Witness ==
    \E i \in Idx :
        /\ dpc[i] = "failed"
        /\ EventsOf("TaskFinish", task_id[i]) # {}

(***************************************************************************)
(* C4. The status_code of a returned batch is OK exactly when every        *)
(* backend result of every target is OK, and ERROR otherwise, whatever the *)
(* order of request.targets and of the backends' answers.                  *)
(***************************************************************************)
C4_WorstOf ==
    result.returned =>
        /\ result.status_code \in {"OK", "ERROR"}
        /\ result.status_code = "OK" <=>
              \A i \in Idx : \A k \in InvokedKinds(i) : handler[i][k].status = "OK"

\* ERROR was returned although the last backend listed answered OK.
C4_Witness ==
    /\ result.returned
    /\ result.status_code = "ERROR"
    /\ \E i \in Idx :
          /\ Len(invoked[i]) = 2
          /\ handler[i][invoked[i][1].kind].status = "CANCELLED"
          /\ handler[i][invoked[i][2].kind].status = "OK"
          /\ i < Len(request.targets)

(***************************************************************************)
(* C5. One run of compile_bsp_target issues, per request type, one Get     *)
(* when the type applies to some target of the build target, carrying the  *)
(* set of the field sets of all targets it applies to, and none otherwise; *)
(* never two.                                                              *)
(***************************************************************************)
C5_OneGetPerKind ==
    \A i \in Idx : \A k \in Kinds :
        /\ Invocations(i, k) <= 1
        /\ dpc[i] \in {"none", "created", "started"} => Invocations(i, k) = 0
        /\ dpc[i] \in {"awaiting", "finished", "returned", "failed"} =>
              /\ Invocations(i, k) = (IF ApplicableTargets(i, k) # {} THEN 1 ELSE 0)
              /\ \A n \in 1..Len(invoked[i]) :
                    invoked[i][n].kind = k =>
                       /\ invoked[i][n].field_sets =
                             { create(k, t) : t \in ApplicableTargets(i, k) }
                       /\ invoked[i][n].bsp_target = IdOf(i)

\* scalac was issued once for a build target with two targets it applies to
\* (one of them listed twice), and javac not at all for another.
C5_Witness ==
    \E i, j \in Idx :
        /\ dpc[i] = "returned"
        /\ Invocations(i, "scalac") = 1
        /\ Cardinality(ApplicableTargets(i, "scalac")) = 2
        /\ Len(ResolveTargets(IdOf(i))) = 3
        /\ dpc[j] = "returned"
        /\ ApplicableTargets(j, "javac") = {}
        /\ Invocations(j, "javac") = 0

\* A returned batch of "//:a" and "//:b", both matched by scalac
BatchOfAandB ==
    /\ pc = "returned"
    /\ { request.targets[i] : i \in Idx } = {"//:a", "//:b"}

(***************************************************************************)
(* C6. As claimed: a returned batch of "//:a" and "//:b", both matched by  *)
(* scalac, has issued one scalac Get in all.                               *)
(***************************************************************************)
C6_OneScalacForBatch ==
    BatchOfAandB =>
        Cardinality({ i \in Idx : Invocations(i, "scalac") > 0 }) = 1

\* C6, amended: each of the two compile_bsp_target runs has issued its own
\* scalac Get, so two in all, each carrying the field sets of its own
\* build target's targets and of no other.
C6_OneScalacPerIdentifier ==
    BatchOfAandB =>
        /\ \A i \in Idx :
              /\ Invocations(i, "scalac") = 1
              /\ \A n \in 1..Len(invoked[i]) :
                    invoked[i][n].kind = "scalac" =>
                       invoked[i][n].field_sets =
                          { create("scalac", t) : t \in ApplicableTargets(i, "scalac") }
        /\ \A i, j \in Idx :
              i # j => ApplicableTargets(i, "scalac") \cap ApplicableTargets(j, "scalac") = {}

\* Both scalac Gets of such a batch were answered.
C6_Witness ==
    /\ BatchOfAandB
    /\ \A i \in Idx : handler[i]["scalac"].state = "done"

\* Every identifier resolves and no request type applies to any target.
NoKindApplies ==
    \A i \in Idx :
        /\ Resolvable(request.targets[i])
        /\ \A k \in Kinds : ApplicableTargets(i, k) = {}

(***************************************************************************)
(* C7. When no request type applies to any target of the batch, no backend *)
(* Get is ever issued, every compile_bsp_target returns OK with the empty  *)
(* digest, nothing fails or is written, and the batch returns OK.          *)
(***************************************************************************)
C7_NothingApplies ==
    NoKindApplies =>
        /\ \A i \in Idx :
              /\ invoked[i] = << >>
              /\ \A k \in Kinds : handler[i][k].state = "idle"
              /\ dpc[i] # "failed"
              /\ dpc[i] = "returned" =>
                    dresult[i] = [status |-> "OK", output_digest |-> EMPTY_DIGEST]
        /\ pc # "failed"
        /\ output_digest = EMPTY_DIGEST
        /\ writes = << >>
        /\ pc = "returned" => result.returned /\ result.status_code = "OK"

\* A batch of two such build targets has returned.
C7_Witness ==
    /\ NoKindApplies
    /\ Len(request.targets) = 2
    /\ pc = "returned"

\* The outputs of all backends of the batch, taken together
CombinedTree == UNION { handler[i][k].output_digest : i \in Idx, k \in Kinds }

(***************************************************************************)
(* C8. A call writes to the workspace at most once, under .pants.d/bsp,    *)
(* and only past its merge: it has written exactly when the combined tree  *)
(* of all backend outputs is not empty, and what it wrote is that tree.    *)
(***************************************************************************)
C8_WriteOnceIffNonEmpty ==
    /\ Len(writes) <= 1
    /\ pc \notin {"aggregating", "returned"} => writes = << >>
    /\ pc \in {"aggregating", "returned"} =>
          /\ Len(writes) = 1 <=> CombinedTree # EMPTY_DIGEST
          /\ Len(writes) = 1 =>
                writes[1] = [digest |-> CombinedTree, path_prefix |-> ".pants.d/bsp"]

\* The tree of two build targets' outputs has been written.
C8_Witness ==
    /\ pc = "returned"
    /\ Len(writes) = 1
    /\ Cardinality(writes[1].digest) = 2

SomeResolutionFailed == \E i \in Idx : bsp_targets[i].state = "failed"

(***************************************************************************)
(* C9. When the resolution of one identifier of the batch has failed, no   *)
(* compile_bsp_target runs for any identifier: nothing is pushed to the    *)
(* sink, no backend Get is issued, nothing is written or returned.         *)
(***************************************************************************)
C9_NoPartialCompile ==
    SomeResolutionFailed =>
        /\ \A i \in Idx :
              /\ dpc[i] = "none"
              /\ task_id[i] = 0
              /\ invoked[i] = << >>
              /\ \A k \in Kinds : handler[i][k].state = "idle"
        /\ notifications = << >>
        /\ writes = << >>
        /\ ~result.returned
        /\ pc \in {"resolving", "failed"}

\* One identifier failed to resolve, the other resolved, the call is over.
C9_Witness ==
    /\ pc = "failed"
    /\ \E i, j \in Idx :
          bsp_targets[i].state = "failed" /\ bsp_targets[j].state = "resolved"

(***************************************************************************)
(* C10. As claimed: a call ended by a failed resolution or a failed merge  *)
(* has returned a CompileResult, of status ERROR.                          *)
(***************************************************************************)
C10_FailureReturnsError ==
    pc = "failed" => result.returned /\ result.status_code = "ERROR"

\* The digests of compile_bsp_target i's backend results collide.
TargetMergeConflict(i) == ~MergeDigests(Digests(CompileResultsOf(i))).ok

SomeBackendNotOK ==
    \E i \in Idx : \E k \in InvokedKinds(i) :
        handler[i][k].state = "done" /\ handler[i][k].status # "OK"

\* C10, amended: a call ended by a failed resolution or a failed merge has
\* returned no CompileResult at all and written nothing, and nothing else
\* ends a call that way; a backend's non-OK status ends neither rule: only
\* colliding digests fail compile_bsp_target, and a call that returns after
\* a non-OK backend result returns ERROR.
C10_FailureRaises ==
    /\ pc = "failed" =>
          /\ ~result.returned
          /\ writes = << >>
          /\ \/ SomeResolutionFailed
             \/ \E i \in Idx : dpc[i] = "failed"
             \/ ~MergeDigests(Digests(BatchResults)).ok
    /\ (SomeResolutionFailed \/ \E i \in Idx : dpc[i] = "failed") =>
          pc \in {"resolving", "dispatching", "failed"} /\ ~result.returned
    /\ \A i \in Idx :
          /\ dpc[i] = "failed" => HasFinish(i) /\ TargetMergeConflict(i)
          /\ dpc[i] = "returned" => ~TargetMergeConflict(i)
    /\ result.returned =>
          (SomeBackendNotOK <=> result.status_code = "ERROR")

\* The batch merge failed on two build targets' colliding outputs, after a
\* backend of one of them answered ERROR without ending anything.
C10_Witness ==
    /\ pc = "failed"
    /\ \A i \in Idx : dpc[i] = "returned"
    /\ Len(request.targets) = 2
    /\ \E i \in Idx : dresult[i].status = "ERROR"

(***************************************************************************)
(* C11. As claimed: every call that has ended has delivered a final        *)
(* CompileResult.                                                          *)
(***************************************************************************)
C11_EveryCallDelivers ==
    pc \notin {"resolving", "dispatching", "merged", "aggregating"} =>
        result.returned

\* The batch merge of line 134 fails on the results returned.
BatchMergeConflict ==
    /\ \A i \in Idx : dpc[i] = "returned"
    /\ ~MergeDigests(Digests(BatchResults)).ok

\* No CompileResult is held before the rule's return statement, the one held
\* after it stands on a completed batch, and a call ends without one only on
\* a failed resolution or a failed merge.
C11_Safety ==
    /\ result.returned <=> pc = "returned"
    /\ pc # "returned" => result = NoCompileResult
    /\ result.returned =>
          /\ ~SomeResolutionFailed
          /\ \A i \in Idx : dpc[i] = "returned" /\ ~TargetMergeConflict(i)
          /\ ~BatchMergeConflict
    /\ pc = "failed" =>
          \/ SomeResolutionFailed
          \/ \E i \in Idx : dpc[i] = "failed" /\ TargetMergeConflict(i)
          \/ BatchMergeConflict

\* A CompileResult, once delivered, stays as it is until the next request.
C11_DeliveredOnce ==
    result.returned =>
        \/ result' = result
        \/ result' = NoCompileResult /\ pc' = "resolving"

\* C11, amended: under fair scheduling, with every resolution, backend and
\* merge answering, every call ends; it ends with exactly one CompileResult,
\* delivered once and with no partial result before it, when every resolution
\* and merge succeeded, and with no CompileResult at all when one of them
\* failed.
C11_OneResultUnlessFailed ==
    /\ []C11_Safety
    /\ [][C11_DeliveredOnce]_vars
    /\ (pc \notin {"returned", "failed"}) ~> (pc \in {"returned", "failed"})

\* A batch of two build targets, three backends answered, has returned.
C11_Witness ==
    /\ result.returned
    /\ Len(request.targets) = 2
    /\ \A i \in Idx : \A k \in InvokedKinds(i) : handler[i][k].state = "done"
    /\ Cardinality({ <<i, k>> \in Idx \X Kinds : handler[i][k].state = "done" }) = 3


(***************************************************************************)
(* C12                                                                     *)
(***************************************************************************)
\* What the backends of target i returned determines the result of its
\* compile_bsp_target.
OutcomeOf(i) ==
    [status |-> WorstOf(CompileResultsOf(i)),
     output_digest |-> MergeDigests(Digests(CompileResultsOf(i))).digest]

\* The status_code the results of all the backends of the batch determine.
BatchStatusOf ==
    IF \E i \in Idx : \E k \in InvokedKinds(i) : handler[i][k].status # "OK"
    THEN "ERROR" ELSE "OK"

\* C12: a push of TaskStart or TaskFinish that fails never affects the
\* compile outcome.  Whether or not some push of the call failed, a
\* compile_bsp_target that returned has the status and the tree its own
\* backends determine, one that raised did so on a collision of its
\* backends' trees, and the batch has the status_code and the output tree
\* the backends of the batch determine: the same as when every push is
\* delivered.
C12_DeliveryFailureIgnored ==
    /\ \A i \in Idx :
          /\ dpc[i] = "returned" =>
                /\ dresult[i] = OutcomeOf(i)
                /\ ~TargetMergeConflict(i)
          /\ dpc[i] = "failed" =>
                /\ TargetMergeConflict(i)
                /\ HasFinish(i)
          /\ dpc[i] \in {"finished", "returned", "failed"} =>
                \A k \in InvokedKinds(i) : handler[i][k].state = "done"
    /\ result.returned =>
          /\ result.status_code = BatchStatusOf
          /\ output_digest = CombinedTree
          /\ \A i \in Idx : dpc[i] = "returned"

C12_Witness ==
    /\ push_failed
    /\ result.returned
    /\ result.status_code = "OK"
    /\ output_digest # EMPTY_DIGEST
    /\ Len(notifications) = 4



(***************************************************************************)
(* C13                                                                     *)
(***************************************************************************)
\* The request types that apply to some target of the i-th build target
ApplicableKinds(i) == { k \in Kinds : ApplicableTargets(i, k) # {} }

\* The trees the backends of the i-th build target returned
TreesOf(i) == UNION { handler[i][k].output_digest : k \in Kinds }

\* C13: a backend that reports ERROR cancels nothing.  A compile_bsp_target
\* passes its join only when every request type that applies to its target
\* was invoked and has answered, whatever the statuses of the answers; the
\* batch passes its join only when every compile_bsp_target has returned;
\* the tree a compile_bsp_target returns holds the trees of all its
\* backends and the tree of the batch holds the trees of all backends of
\* all targets, those of the backends that reported ERROR included.
C13_ErrorCancelsNothing ==
    /\ \A i \in Idx :
          /\ dpc[i] \in {"finished", "returned", "failed"} =>
                /\ InvokedKinds(i) = ApplicableKinds(i)
                /\ \A k \in ApplicableKinds(i) : handler[i][k].state = "done"
          /\ dpc[i] = "returned" => dresult[i].output_digest = TreesOf(i)
    /\ pc \in {"merged", "aggregating", "returned"} =>
          /\ \A i \in Idx : dpc[i] = "returned"
          /\ output_digest = CombinedTree
          /\ \A i \in Idx : \A k \in ApplicableKinds(i) :
                handler[i][k].output_digest \subseteq output_digest

\* javac reported ERROR with a tree for one target; scalac for the same
\* target and the backend of the other target still answered, and all three
\* trees are in the output.
C13_Witness ==
    /\ result.returned
    /\ result.status_code = "ERROR"
    /\ \E i, j \in Idx :
          /\ i # j
          /\ handler[i]["javac"].status = "ERROR"
          /\ handler[i]["javac"].output_digest # EMPTY_DIGEST
          /\ handler[i]["scalac"].status = "OK"
          /\ handler[i]["scalac"].output_digest # EMPTY_DIGEST
          /\ handler[i]["scalac"].output_digest # handler[i]["javac"].output_digest
          /\ handler[j]["scalac"].status = "OK"
          /\ handler[j]["scalac"].output_digest # EMPTY_DIGEST
          /\ handler[i]["javac"].output_digest \subseteq output_digest



(***************************************************************************)
(* C14                                                                     *)
(***************************************************************************)
\* Some backend invoked for the i-th build target has not answered.
Blocked(i) == \E k \in Kinds : handler[i][k].state = "running"

\* C14: while a backend invocation of any target of the batch is incomplete
\* the batch result is not returned.  The target of the incomplete
\* invocation has no TaskFinish and no result, its compile_bsp_target waits
\* in its join, and the batch has neither merged, written nor returned,
\* whatever the other targets have done; neither step can be taken from
\* such a state.
C14_BlockedBackendBlocksBatch ==
    \A i \in Idx :
        Blocked(i) =>
            /\ dpc[i] = "awaiting"
            /\ ~HasFinish(i)
            /\ dresult[i] = NoResult
            /\ ~ENABLED Finish(i)
            /\ pc \in {"dispatching", "failed"}
            /\ output_digest = EMPTY_DIGEST
            /\ writes = << >>
            /\ ~result.returned
            /\ ~ENABLED Merge

\* One target has its TaskFinish and its result while a backend of the
\* other has not answered.
C14_Witness ==
    \E i, j \in Idx :
        /\ Blocked(i)
        /\ dpc[j] = "returned"
        /\ HasFinish(j)
        /\ InvokedKinds(j) # {}
        /\ pc = "dispatching"



(***************************************************************************)
(* C15                                                                     *)
(***************************************************************************)
\* C15: once the workspace has been written in a call, every
\* compile_bsp_target of the batch has returned, so the TaskFinish of every
\* target is in the sink, no backend invocation is outstanding, every
\* per-target merge and the batch merge have produced their trees, and the
\* tree written is the tree of the batch merge.  Nothing of this can change
\* between the write and the end of the call, so it held when the write
\* was performed.
C15_WriteAfterEverything ==
    writes # << >> =>
        /\ pc \in {"aggregating", "returned"}
        /\ \A i \in Idx :
              /\ dpc[i] = "returned"
              /\ Cardinality(EventsFor("TaskFinish", IdOf(i))) = 1
              /\ ~Blocked(i)
              /\ dresult[i].output_digest = TreesOf(i)
        /\ MergeDigests(Digests(BatchResults)).ok
        /\ output_digest = MergeDigests(Digests(BatchResults)).digest
        /\ writes[Len(writes)].digest = output_digest

\* The write has just been made for a batch of two targets that each got a
\* tree from a backend.
C15_Witness ==
    /\ writes # << >>
    /\ pc = "aggregating"
    /\ Len(request.targets) = 2
    /\ \A i \in Idx : dresult[i].output_digest # EMPTY_DIGEST
    /\ Cardinality(output_digest) = 2



(***************************************************************************)
(* C16                                                                     *)
(***************************************************************************)
\* The worst-of status of the backends invoked for the i-th build target
OwnStatus(i) ==
    IF \A k \in InvokedKinds(i) : handler[i][k].status = "OK" THEN "OK" ELSE "ERROR"

\* C16: the status of a target's TaskFinish is the worst-of over the results
\* of the backends invoked for that target and of no other: OK iff each of
\* them is OK, OK when none was invoked.  The status_code of a returned
\* batch is ERROR iff some backend of some target of the batch did not
\* report OK.
C16_FinishStatusIsOwn ==
    /\ \A i \in Idx : \A n \in EventsFor("TaskFinish", IdOf(i)) :
          notifications[n].status = OwnStatus(i)
    /\ result.returned =>
          (result.status_code = "ERROR" <=> \E i \in Idx : OwnStatus(i) = "ERROR")

\* The batch returned ERROR because of a backend of one target, and the
\* TaskFinish of the other target, pushed after that backend had answered,
\* says OK.
C16_Witness ==
    /\ result.returned
    /\ result.status_code = "ERROR"
    /\ \E i, j \in Idx :
          /\ OwnStatus(i) = "ERROR"
          /\ OwnStatus(j) = "OK"
          /\ InvokedKinds(j) # {}
          /\ \E n \in EventsFor("TaskFinish", IdOf(i)),
                m \in EventsFor("TaskFinish", IdOf(j)) :
                /\ n < m
                /\ notifications[n].status = "ERROR"
                /\ notifications[m].status = "OK"



(***************************************************************************)
(* C17                                                                     *)
(***************************************************************************)
\* C17: the origin_id of the request is passed through unmodified.  The
\* CompileResult returned carries it, "None" included; every TaskFinish in
\* the sink carries it in its report, names the target of the one TaskStart
\* with its TaskId, and reports no errors and no warnings.
C17_OriginPassedThrough ==
    /\ result.returned => result.origin_id = request.origin_id
    /\ \A n \in Notes :
          notifications[n].kind = "TaskFinish" =>
             /\ notifications[n].origin_id = request.origin_id
             /\ notifications[n].errors = 0
             /\ notifications[n].warnings = 0
             /\ \E m \in EventsOf("TaskStart", notifications[n].task_id) :
                   /\ m < n
                   /\ notifications[m].target = notifications[n].target
             /\ \A m \in EventsOf("TaskStart", notifications[n].task_id) :
                   notifications[m].target = notifications[n].target

\* A request with an origin_id returned ERROR after two TaskFinish, one of
\* them for a target whose backend returned ERROR with a tree.
C17_Witness ==
    /\ result.returned
    /\ request.origin_id = "origin-1"
    /\ result.origin_id = "origin-1"
    /\ Len(notifications) = 4
    /\ \E i \in Idx : \E k \in InvokedKinds(i) :
          /\ handler[i][k].status = "ERROR"
          /\ handler[i][k].output_digest # EMPTY_DIGEST



(***************************************************************************)
(* C18                                                                     *)
(***************************************************************************)
\* Two trees the backends of the i-th build target returned hold different
\* contents at one path.
TargetCollision(i) ==
    \E k1, k2 \in InvokedKinds(i) :
        Collides(handler[i][k1].output_digest, handler[i][k2].output_digest)

\* Two trees returned by backends of the batch hold different contents at
\* one path.
AnyCollision == Collides(CombinedTree, CombinedTree)

\* C18: a path collision is fatal to the merge in which it occurs.  A
\* compile_bsp_target whose backends returned colliding trees returns no
\* result and no tree; a batch in which any two backend trees collide, in
\* one target or across targets, has no output tree, writes nothing and
\* returns no CompileResult, so no status OK; no merge produces a tree that
\* holds one of two colliding entries.
C18_CollisionIsFatal ==
    /\ \A i \in Idx :
          /\ TargetCollision(i) =>
                /\ dpc[i] # "returned"
                /\ dresult[i] = NoResult
          /\ dpc[i] = "failed" => TargetCollision(i)
          /\ ~Collides(dresult[i].output_digest, dresult[i].output_digest)
    /\ AnyCollision =>
          /\ pc \in {"dispatching", "failed"}
          /\ output_digest = EMPTY_DIGEST
          /\ writes = << >>
          /\ ~result.returned
    /\ ~Collides(output_digest, output_digest)

\* Every compile_bsp_target returned a tree of its own, the trees of two
\* targets collide, and the batch merge has failed.
C18_Witness ==
    /\ pc = "failed"
    /\ AnyCollision
    /\ \A i \in Idx : dpc[i] = "returned" /\ dresult[i].output_digest # EMPTY_DIGEST
    /\ ~SomeResolutionFailed



(***************************************************************************)
(* C19                                                                     *)
(***************************************************************************)
\* C19: compile_bsp_target pushes TaskFinish before it merges the trees of
\* its backends.  Whenever its merge has been attempted, with or without
\* success, the TaskFinish of its target is already in the sink; when the
\* merge failed on a collision, that one TaskFinish carries the worst-of
\* status of the backend results, OK when every backend reported OK, and
\* the target has no result.
C19_FinishBeforeMerge ==
    \A i \in Idx :
        /\ dpc[i] \in {"finished", "returned", "failed"} =>
              Cardinality(EventsFor("TaskFinish", IdOf(i))) = 1
        /\ dpc[i] \in {"none", "created", "started", "awaiting"} =>
              /\ ~HasFinish(i)
              /\ dresult[i] = NoResult
        /\ dpc[i] = "failed" =>
              /\ TargetCollision(i)
              /\ \A n \in EventsFor("TaskFinish", IdOf(i)) :
                    /\ notifications[n].status = WorstOf(CompileResultsOf(i))
                    /\ notifications[n].task_id = task_id[i]
              /\ dresult[i] = NoResult

\* javac and scalac both reported OK with trees that collide: the TaskFinish
\* in the sink says OK and the target has no result.
C19_Witness ==
    \E i \in Idx :
        /\ dpc[i] = "failed"
        /\ \A k \in Kinds : handler[i][k].status = "OK"
        /\ \E n \in EventsFor("TaskFinish", IdOf(i)) : notifications[n].status = "OK"
        /\ dresult[i] = NoResult



(***************************************************************************)
(* C20                                                                     *)
(***************************************************************************)
\* The trees returned by the backends that did not report OK
FailingTrees ==
    UNION { handler[p[1]][p[2]].output_digest :
               p \in { q \in Idx \X Kinds : handler[q[1]][q[2]].status \notin {"OK", "-"} } }

\* C20: the workspace write does not depend on the compile status.  Once
\* the batch is past line 136, a non-empty combined tree has been written,
\* once and whole, the trees of the backends that did not report OK
\* included, also when the status_code that is then returned is ERROR; the
\* write is there before the result is.
C20_WriteWhateverStatus ==
    /\ pc \in {"aggregating", "returned"} /\ CombinedTree # EMPTY_DIGEST =>
          /\ writes = << [digest |-> CombinedTree, path_prefix |-> ".pants.d/bsp"] >>
          /\ FailingTrees \subseteq writes[1].digest
    /\ result.returned /\ result.status_code = "ERROR" =>
          /\ BatchStatusOf = "ERROR"
          /\ writes # << >> <=> CombinedTree # EMPTY_DIGEST

\* ERROR was returned after a write that holds the tree of the backend that
\* reported ERROR.
C20_Witness ==
    /\ result.returned
    /\ result.status_code = "ERROR"
    /\ FailingTrees # EMPTY_DIGEST
    /\ Len(writes) = 1
    /\ FailingTrees \subseteq writes[1].digest
    /\ writes[1].digest # FailingTrees


====
